---- MODULE Spec2Model ----
(***************************************************************************)
(* The typing race of src/src/main.rs: the controller loop of main (one    *)
(* terminal.draw, then one rx.recv), the input/tick producer thread, the   *)
(* mpsc channel between them, the word queue and the monotonic clock.      *)
(* Times are in milliseconds.  An Instant is kept as its age, the time     *)
(* elapsed since it was taken, which is all the program reads of it        *)
(* (Instant::elapsed); the clock ages every Instant alike.                  *)
(***************************************************************************)
EXTENDS Integers, Sequences, FiniteSets, TLC

VARIABLES
    active_menu_item,   \* MenuItem: "Home", "Game", "GameOver"
    start,              \* bool
    countdown,          \* usize
    game_start_time,    \* Option<Instant>: <<>> is None, <<a>> is Some, of age a
    curr_input,         \* String, as a sequence of characters
    game_words,         \* VecDeque<String>
    score,              \* usize
    chan,               \* the mpsc channel: events sent and not yet received
    ppc,                \* producer thread: "poll", "tick" or "dead"
    last_tick,          \* producer's last_tick: Instant, as its age
    pc,                 \* main thread: "draw", "recv" or "exited"
    exit_status,        \* "running", "ok" (Ok(())), "err" (Err returned by ?)
                        \* or "panic" (the main thread panicked)
    raw_mode,           \* terminal raw mode enabled
    cursor_shown,       \* terminal cursor visible
    restore_log,        \* the terminal-restoring calls made so far, in order
    since_start,        \* history: render passes done since the last start key
                        \* was handled (all of them, and those of the Home arm),
                        \* counted up to MaxPasses
    sent_in_game        \* history, kept by SpecWide: for each event of chan,
                        \* whether the screen was Game when the producer sent it

vars == <<active_menu_item, start, countdown, game_start_time, curr_input,
          game_words, score, chan, ppc, last_tick, pc,
          exit_status, raw_mode, cursor_shown, restore_log,
          since_start, sent_in_game>>

session == <<active_menu_item, start, countdown, game_start_time, curr_input,
             game_words, score>>
terminal == <<raw_mode, cursor_shown, restore_log, exit_status>>
producer == <<ppc, last_tick>>
history == <<since_start, sent_in_game>>

----------------------------------------------------------------------------
(* Program constants *)

TickRate == 200
CountdownSleep == 1000
CountdownStart == 3
GameSeconds == 60
NumWords == 100

(* Bounds of the model *)

\* The render passes counted after a start key: those of the countdown and
\* the GameOver arm's before them; a larger count is never read.
MaxPasses == CountdownStart + 1

MaxElapsed == 62000
MaxChan == 1
MaxInput == 2
MaxScore == 1

----------------------------------------------------------------------------
(* Keys and events *)

NONE == "NONE"
CONTROL == "CONTROL"
SHIFT == "SHIFT"

Char(c) == <<"Char", c>>
Backspace == <<"Backspace">>

KeyEvent(code, modifiers) == [code |-> code, modifiers |-> modifiers]

Tick == [type |-> "Tick"]
Input(key) == [type |-> "Input", key |-> key]

\* The keys the player presses in the model.
Keys ==
    { KeyEvent(Char("q"), NONE), KeyEvent(Char("s"), NONE),
      KeyEvent(Char("r"), SHIFT), KeyEvent(Char(" "), NONE),
      KeyEvent(Backspace, NONE), KeyEvent(Char("a"), CONTROL) }

\* The amounts by which the clock is seen to jump between two steps.
Delays == {59000, 60000}

----------------------------------------------------------------------------
(* The word supplier rand_word::new(n): n words of a fixed dictionary.  The *)
(* model's supplier walks the dictionary cyclically from a chosen offset b. *)

Dict == << <<"q">>, <<"s", "q">> >>

new(n, b) == [i \in 1..n |-> Dict[((b + i - 1) % Len(Dict)) + 1]]

Offsets == 0..(Len(Dict) - 1)

----------------------------------------------------------------------------
(* str::trim *)

IsSpace(c) == c = " "

RECURSIVE TrimStart(_)
TrimStart(s) ==
    IF s # <<>> /\ IsSpace(Head(s)) THEN TrimStart(Tail(s)) ELSE s

RECURSIVE TrimEnd(_)
TrimEnd(s) ==
    IF s # <<>> /\ IsSpace(s[Len(s)]) THEN TrimEnd(SubSeq(s, 1, Len(s) - 1)) ELSE s

trim(s) == TrimEnd(TrimStart(s))

----------------------------------------------------------------------------
(* Instant::elapsed().as_secs() and the gauge percent *)

as_secs(ms) == ms \div 1000

Min(a, b) == IF a <= b THEN a ELSE b

\* An Instant of age a, d milliseconds later.  Ages beyond the cap are not
\* told apart.
Aged(a, d, cap) == Min(a + d, cap)

\* The clock advances by d: every Instant held is d older.
ClockAdvance(d) ==
    /\ last_tick' = Aged(last_tick, d, TickRate)
    /\ game_start_time' =
          IF game_start_time = <<>> THEN <<>>
          ELSE <<Aged(game_start_time[1], d, MaxElapsed)>>

percent(in_game_timer) == 100 - ((100 * in_game_timer) \div GameSeconds)

----------------------------------------------------------------------------
Init ==
    /\ active_menu_item = "Home"
    /\ start = FALSE
    /\ countdown = CountdownStart
    /\ game_start_time = <<>>
    /\ curr_input = <<>>
    /\ \E b \in Offsets : game_words = new(NumWords, b)
    /\ score = 0
    /\ chan = <<>>
    /\ ppc = "poll"
    /\ last_tick = 0
    /\ pc = "draw"
    /\ exit_status = "running"
    /\ raw_mode = TRUE
    /\ cursor_shown = TRUE
    /\ restore_log = <<>>
    /\ since_start = [all |-> MaxPasses, home |-> MaxPasses]
    /\ sent_in_game = <<>>

----------------------------------------------------------------------------
(* The clock *)

Elapse ==
    /\ pc # "exited"
    /\ \E d \in Delays : ClockAdvance(d)
    /\ UNCHANGED <<active_menu_item, start, countdown, curr_input, game_words,
                   score, chan, ppc, pc, terminal>>

----------------------------------------------------------------------------
(* The producer thread *)

\* event::poll returns true and event::read gives a key: send it.  The
\* channel is unbounded; cap is the number of events the model lets it hold.
SendKey(cap, keys) ==
    /\ pc # "exited"
    /\ ppc = "poll"
    /\ Len(chan) < cap
    /\ \E key \in keys : chan' = Append(chan, Input(key))
    /\ ppc' = "tick"
    /\ UNCHANGED <<session, last_tick, pc, terminal>>

ProducerKey == SendKey(MaxChan, Keys)

\* event::poll times out, or the event read is not a key: nothing is sent.
ProducerNoKey ==
    /\ pc # "exited"
    /\ ppc = "poll"
    /\ ppc' = "tick"
    /\ UNCHANGED <<session, chan, last_tick, pc, terminal>>

\* event::poll or event::read fails: expect panics and the thread ends.
ProducerPanic ==
    /\ pc # "exited"
    /\ ppc = "poll"
    /\ ppc' = "dead"
    /\ UNCHANGED <<session, chan, last_tick, pc, terminal>>

\* A Tick that jumps the queue: it is put in front of the events in flight.
SendTick_Front(cap) ==
    /\ pc # "exited"
    /\ ppc = "tick"
    /\ IF last_tick >= TickRate
          THEN /\ Len(chan) < cap
               /\ chan' = <<Tick>> \o chan
               /\ last_tick' = 0
          ELSE UNCHANGED <<chan, last_tick>>
    /\ ppc' = "poll"
    /\ UNCHANGED <<session, pc, terminal>>

\* The end of the producer's iteration: a Tick when tick_rate has elapsed.
SendTick(cap) ==
    /\ pc # "exited"
    /\ ppc = "tick"
    /\ IF last_tick >= TickRate
          THEN /\ Len(chan) < cap
               /\ chan' = Append(chan, Tick)
               /\ last_tick' = 0
          ELSE UNCHANGED <<chan, last_tick>>
    /\ ppc' = "poll"
    /\ UNCHANGED <<session, pc, terminal>>

ProducerTick == SendTick(MaxChan)

----------------------------------------------------------------------------
(* The render pass: terminal.draw *)

\* A render_home that counts down whether started or not.
render_home_Unstarted(st, cd) == IF cd > 0 THEN cd - 1 ELSE cd

\* render_home: the new countdown
render_home(st, cd) == IF st /\ cd > 0 THEN cd - 1 ELSE cd

\* render_home: the time it sleeps
render_home_sleep(st, cd) == IF st /\ cd > 0 THEN CountdownSleep ELSE 0

\* A Home arm that switches to Game without taking the start instant.
DrawHome_NoStartTime ==
    /\ pc = "draw"
    /\ active_menu_item = "Home"
    /\ countdown' = render_home(start, countdown)
    /\ IF countdown' = 0
          THEN /\ active_menu_item' = "Game"
               /\ last_tick' = Aged(last_tick, render_home_sleep(start, countdown), TickRate)
               /\ UNCHANGED game_start_time
          ELSE /\ ClockAdvance(render_home_sleep(start, countdown))
               /\ UNCHANGED active_menu_item
    /\ cursor_shown' = FALSE
    /\ pc' = "recv"
    /\ UNCHANGED <<start, curr_input, game_words, score, chan,
                   ppc, raw_mode, restore_log, exit_status>>

DrawHome ==
    /\ pc = "draw"
    /\ active_menu_item = "Home"
    /\ countdown' = render_home(start, countdown)
    /\ IF countdown' = 0
          THEN /\ active_menu_item' = "Game"
               /\ game_start_time' = <<0>>
               /\ last_tick' = Aged(last_tick, render_home_sleep(start, countdown), TickRate)
          ELSE /\ ClockAdvance(render_home_sleep(start, countdown))
               /\ UNCHANGED active_menu_item
    /\ cursor_shown' = FALSE
    /\ pc' = "recv"
    /\ UNCHANGED <<start, curr_input, game_words, score, chan,
                   ppc, raw_mode, restore_log, exit_status>>

\* A match that forgets to trim the input.
Matches_NoTrim(input, words) == input = Head(words)

\* The Game arm, first half: the word match.
Matches(input, words) == trim(input) = Head(words)

\* A timeout that fires one step late: percent < 0 in place of percent <= 0.
TimedOut_Strict(in_game_timer) == percent(in_game_timer) < 0

\* The Game arm, second half: the timeout.
TimedOut(in_game_timer) == percent(in_game_timer) <= 0

\* A Game arm that zeroes the score when the race times out.
DrawGame_ScoreReset ==
    /\ pc = "draw"
    /\ active_menu_item = "Game"
    /\ LET in_game_timer == as_secs(game_start_time[1])
       IN  IF TimedOut(in_game_timer)
              THEN /\ active_menu_item' = "GameOver"
                   /\ start' = FALSE
                   /\ score' = 0
                   /\ UNCHANGED <<game_words, curr_input>>
              ELSE /\ UNCHANGED <<active_menu_item, start>>
                   /\ IF Matches(curr_input, game_words)
                         THEN /\ score + 1 <= MaxScore
                              /\ \E b \in Offsets :
                                    game_words' = Tail(game_words) \o new(1, b)
                              /\ curr_input' = <<>>
                              /\ score' = score + 1
                         ELSE UNCHANGED <<game_words, curr_input, score>>
    /\ cursor_shown' = FALSE
    /\ pc' = "recv"
    /\ UNCHANGED <<countdown, game_start_time, chan, producer, raw_mode,
                   restore_log, exit_status>>

DrawGame ==
    /\ pc = "draw"
    /\ active_menu_item = "Game"
    /\ IF Matches(curr_input, game_words)
          THEN /\ score + 1 <= MaxScore
               /\ \E b \in Offsets :
                     game_words' = Tail(game_words) \o new(1, b)
               /\ curr_input' = <<>>
               /\ score' = score + 1
          ELSE UNCHANGED <<game_words, curr_input, score>>
    /\ LET in_game_timer == as_secs(game_start_time[1])
       IN  IF TimedOut(in_game_timer)
              THEN /\ active_menu_item' = "GameOver"
                   /\ start' = FALSE
              ELSE UNCHANGED <<active_menu_item, start>>
    /\ cursor_shown' = FALSE
    /\ pc' = "recv"
    /\ UNCHANGED <<countdown, game_start_time, chan, producer, raw_mode,
                   restore_log, exit_status>>

\* The Game arm when more than 60 whole seconds have elapsed: 60 - in_game_timer
\* on u64 overflows.  A build with overflow checks panics there (this action);
\* a build without them wraps and the render goes on (DrawGame).
DrawGamePanic ==
    /\ pc = "draw"
    /\ active_menu_item = "Game"
    /\ as_secs(game_start_time[1]) > GameSeconds
    /\ pc' = "exited"
    /\ exit_status' = "panic"
    /\ UNCHANGED <<session, chan, producer, raw_mode, cursor_shown,
                   restore_log>>

\* A GameOver arm that refills the queue without clearing it first.
DrawGameOver_NoClear ==
    /\ pc = "draw"
    /\ active_menu_item = "GameOver"
    /\ IF start
          THEN /\ active_menu_item' = "Home"
               /\ \E b \in Offsets : game_words' = game_words \o new(NumWords, b)
          ELSE UNCHANGED <<active_menu_item, game_words>>
    /\ cursor_shown' = FALSE
    /\ pc' = "recv"
    /\ UNCHANGED <<start, countdown, game_start_time, curr_input, score,
                   chan, producer, raw_mode, restore_log, exit_status>>

DrawGameOver ==
    /\ pc = "draw"
    /\ active_menu_item = "GameOver"
    /\ IF start
          THEN /\ active_menu_item' = "Home"
               /\ \E b \in Offsets : game_words' = new(NumWords, b)
          ELSE UNCHANGED <<active_menu_item, game_words>>
    /\ cursor_shown' = FALSE
    /\ pc' = "recv"
    /\ UNCHANGED <<start, countdown, game_start_time, curr_input, score,
                   chan, producer, raw_mode, restore_log, exit_status>>

\* terminal.draw returns Err: ? returns it from main.
DrawErr ==
    /\ pc = "draw"
    /\ pc' = "exited"
    /\ exit_status' = "err"
    /\ UNCHANGED <<session, chan, producer, raw_mode, cursor_shown,
                   restore_log>>

----------------------------------------------------------------------------
(* The event step: rx.recv and the match on the event *)

\* A started branch where Ctrl-A deletes one character, as Backspace does.
InputStarted_CtrlAPop(input, ev) ==
    IF ev.type = "Input"
       THEN IF ev.key.modifiers = NONE
               THEN IF ev.key.code = Backspace
                       THEN IF input = <<>> THEN input
                                            ELSE SubSeq(input, 1, Len(input) - 1)
                       ELSE IF ev.key.code[1] = "Char"
                               THEN Append(input, ev.key.code[2])
                               ELSE input
               ELSE IF ev.key.modifiers = CONTROL /\ ev.key.code = Char("a")
                       THEN IF input = <<>> THEN input
                                            ELSE SubSeq(input, 1, Len(input) - 1)
                       ELSE input
       ELSE input

\* A started branch where Backspace deletes the first character.
InputStarted_PopFront(input, ev) ==
    IF ev.type = "Input"
       THEN IF ev.key.modifiers = NONE
               THEN IF ev.key.code = Backspace
                       THEN IF input = <<>> THEN input ELSE Tail(input)
                       ELSE IF ev.key.code[1] = "Char"
                               THEN Append(input, ev.key.code[2])
                               ELSE input
               ELSE IF ev.key.modifiers = CONTROL /\ ev.key.code = Char("a")
                       THEN <<>>
                       ELSE input
       ELSE input

\* The started branch: the new curr_input
InputStarted(input, ev) ==
    IF ev.type = "Input"
       THEN IF ev.key.modifiers = NONE
               THEN IF ev.key.code = Backspace
                       THEN IF input = <<>> THEN input
                                            ELSE SubSeq(input, 1, Len(input) - 1)
                       ELSE IF ev.key.code[1] = "Char"
                               THEN Append(input, ev.key.code[2])
                               ELSE input
               ELSE IF ev.key.modifiers = CONTROL /\ ev.key.code = Char("a")
                       THEN <<>>
                       ELSE input
       ELSE input

\* A started branch that waits for the next event without a render pass.
RecvStarted_NoRedraw ==
    /\ pc = "recv"
    /\ start
    /\ chan # <<>>
    /\ curr_input' = InputStarted(curr_input, Head(chan))
    /\ Len(curr_input') <= MaxInput
    /\ chan' = Tail(chan)
    /\ pc' = "recv"
    /\ UNCHANGED <<active_menu_item, start, countdown, game_start_time,
                   game_words, score, producer, terminal>>

RecvStarted ==
    /\ pc = "recv"
    /\ start
    /\ chan # <<>>
    /\ curr_input' = InputStarted(curr_input, Head(chan))
    /\ Len(curr_input') <= MaxInput
    /\ chan' = Tail(chan)
    /\ pc' = "draw"
    /\ UNCHANGED <<active_menu_item, start, countdown, game_start_time,
                   game_words, score, producer, terminal>>

IsQuit(ev) == ev.type = "Input" /\ ev.key.code = Char("q")

IsStart(ev) ==
    ev.type = "Input" /\ (ev.key.code = Char("s") \/ ev.key.code = Char("r"))

\* A quit that shows the cursor and leaves raw mode on.
RecvQuit_NoDisable ==
    /\ pc = "recv"
    /\ ~start
    /\ chan # <<>>
    /\ IsQuit(Head(chan))
    /\ chan' = Tail(chan)
    /\ pc' = "exited"
    /\ exit_status' = "ok"
    /\ cursor_shown' = TRUE
    /\ restore_log' = Append(restore_log, "show_cursor")
    /\ UNCHANGED <<session, producer, raw_mode>>

\* A quit that is matched in the started branch too.
RecvQuit_Started ==
    /\ pc = "recv"
    /\ chan # <<>>
    /\ IsQuit(Head(chan))
    /\ chan' = Tail(chan)
    /\ pc' = "exited"
    /\ exit_status' = "ok"
    /\ raw_mode' = FALSE
    /\ cursor_shown' = TRUE
    /\ restore_log' = restore_log \o <<"disable_raw_mode", "show_cursor">>
    /\ UNCHANGED <<session, producer>>

\* 'q': disable_raw_mode()?; terminal.show_cursor()?; break
RecvQuit ==
    /\ pc = "recv"
    /\ ~start
    /\ chan # <<>>
    /\ IsQuit(Head(chan))
    /\ chan' = Tail(chan)
    /\ pc' = "exited"
    /\ \E disabled, shown \in BOOLEAN :
          IF ~disabled
             THEN /\ exit_status' = "err"
                  /\ UNCHANGED <<raw_mode, cursor_shown, restore_log>>
             ELSE /\ raw_mode' = FALSE
                  /\ IF ~shown
                        THEN /\ exit_status' = "err"
                             /\ restore_log' = Append(restore_log, "disable_raw_mode")
                             /\ UNCHANGED cursor_shown
                        ELSE /\ exit_status' = "ok"
                             /\ cursor_shown' = TRUE
                             /\ restore_log' =
                                   restore_log \o <<"disable_raw_mode", "show_cursor">>
    /\ UNCHANGED <<session, producer>>

\* 's' | 'r'
RecvStart ==
    /\ pc = "recv"
    /\ ~start
    /\ chan # <<>>
    /\ IsStart(Head(chan))
    /\ chan' = Tail(chan)
    /\ start' = TRUE
    /\ countdown' = CountdownStart
    /\ score' = 0
    /\ pc' = "draw"
    /\ UNCHANGED <<active_menu_item, game_start_time, curr_input, game_words,
                   producer, terminal>>

\* any other key, or a Tick
RecvIdle ==
    /\ pc = "recv"
    /\ ~start
    /\ chan # <<>>
    /\ ~IsQuit(Head(chan))
    /\ ~IsStart(Head(chan))
    /\ chan' = Tail(chan)
    /\ pc' = "draw"
    /\ UNCHANGED <<session, producer, terminal>>

\* rx.recv returns Err (the producer is gone and the channel is empty):
\* ? returns it from main.
RecvErr ==
    /\ pc = "recv"
    /\ chan = <<>>
    /\ ppc = "dead"
    /\ pc' = "exited"
    /\ exit_status' = "err"
    /\ UNCHANGED <<session, chan, producer, raw_mode, cursor_shown,
                   restore_log>>

----------------------------------------------------------------------------
(* The history variables, read off the step the program takes *)

NoRender == [all |-> 0, home |-> 0]

Count ==
    since_start' =
       IF ~start /\ start'
          THEN NoRender
          ELSE IF pc = "draw" /\ pc' = "recv"
                  THEN [all  |-> Min(since_start.all + 1, MaxPasses),
                        home |-> IF active_menu_item = "Home"
                                    THEN Min(since_start.home + 1, MaxPasses)
                                    ELSE since_start.home]
                  ELSE since_start

SentInGame ==
    sent_in_game' =
       IF Len(chan') > Len(chan)
          THEN Append(sent_in_game, active_menu_item = "Game")
          ELSE IF Len(chan') < Len(chan)
                  THEN Tail(sent_in_game)
                  ELSE sent_in_game

Observe == Count /\ UNCHANGED sent_in_game

ObserveSent == Count /\ SentInGame

----------------------------------------------------------------------------
Next ==
    \/ Elapse /\ Observe
    \/ ProducerKey /\ Observe
    \/ ProducerNoKey /\ Observe
    \/ ProducerPanic /\ Observe
    \/ ProducerTick /\ Observe
    \/ DrawHome /\ Observe
    \/ DrawGame /\ Observe
    \/ DrawGamePanic /\ Observe
    \/ DrawGameOver /\ Observe
    \/ DrawErr /\ Observe
    \/ RecvStarted /\ Observe
    \/ RecvQuit /\ Observe
    \/ RecvStart /\ Observe
    \/ RecvIdle /\ Observe
    \/ RecvErr /\ Observe

Spec == Init /\ [][Next]_vars

----------------------------------------------------------------------------
(* The same program with room for one more event in the channel and a       *)
(* player who uses two keys: events queue up behind one another.            *)

WideChan == MaxChan + 1

WideKeys == {KeyEvent(Char("s"), NONE), KeyEvent(Char("q"), NONE)}

WideKey == SendKey(WideChan, WideKeys)

WideTick == SendTick(WideChan)

NextWide ==
    \/ Elapse /\ ObserveSent
    \/ WideKey /\ ObserveSent
    \/ ProducerNoKey /\ ObserveSent
    \/ ProducerPanic /\ ObserveSent
    \/ WideTick /\ ObserveSent
    \/ DrawHome /\ ObserveSent
    \/ DrawGame /\ ObserveSent
    \/ DrawGamePanic /\ ObserveSent
    \/ DrawGameOver /\ ObserveSent
    \/ DrawErr /\ ObserveSent
    \/ RecvStarted /\ ObserveSent
    \/ RecvQuit /\ ObserveSent
    \/ RecvStart /\ ObserveSent
    \/ RecvIdle /\ ObserveSent
    \/ RecvErr /\ ObserveSent

SpecWide == Init /\ [][NextWide]_vars

----------------------------------------------------------------------------
(* The program while its producer thread lives (poll and read do not fail), *)
(* with a clock that advances and two threads that get to run.              *)

NextLive ==
    \/ Elapse /\ Observe
    \/ ProducerKey /\ Observe
    \/ ProducerNoKey /\ Observe
    \/ ProducerTick /\ Observe
    \/ DrawHome /\ Observe
    \/ DrawGame /\ Observe
    \/ DrawGamePanic /\ Observe
    \/ DrawGameOver /\ Observe
    \/ DrawErr /\ Observe
    \/ RecvStarted /\ Observe
    \/ RecvQuit /\ Observe
    \/ RecvStart /\ Observe
    \/ RecvIdle /\ Observe

\* Time passes; the producer thread runs its loop; the main thread, when
\* terminal.draw can return, returns from it, and when an event is in the
\* channel, rx.recv returns it.
Fairness ==
    /\ WF_vars(Elapse /\ Observe)
    /\ WF_vars((ProducerKey \/ ProducerNoKey \/ ProducerTick) /\ Observe)
    /\ WF_vars((DrawHome \/ DrawGame \/ DrawGameOver) /\ Observe)
    /\ WF_vars((RecvStarted \/ RecvQuit \/ RecvStart \/ RecvIdle) /\ Observe)

SpecLive == Init /\ [][NextLive]_vars /\ Fairness

----------------------------------------------------------------------------
(* Vocabulary of the properties *)

\* A step that is a render pass, or an event step.
RenderPass == pc = "draw" /\ pc' = "recv"
EventStep == pc = "recv" /\ chan # <<>> /\ chan' = Tail(chan)

\* The event about to be handled is a key with this character as its code.
NextKeyIs(c) ==
    /\ pc = "recv"
    /\ chan # <<>>
    /\ Head(chan).type = "Input"
    /\ Head(chan).key.code = <<"Char", c>>

\* The step handles that key: it takes it off the channel.
Handles(c) == NextKeyIs(c) /\ chan' = Tail(chan)

\* Whole seconds since game_start, on the Game screen.
InGameSeconds == game_start_time[1] \div 1000

\* s without its leading and trailing blanks, by positions.
Stripped(s) ==
    LET keep == {i \in 1..Len(s) : s[i] # " "}
    IN  IF keep = {} THEN <<>>
        ELSE SubSeq(s, CHOOSE i \in keep : \A j \in keep : i <= j,
                       CHOOSE i \in keep : \A j \in keep : j <= i)

DictWords == {Dict[i] : i \in 1..Len(Dict)}

FullRestore == <<"disable_raw_mode", "show_cursor">>

----------------------------------------------------------------------------
\* C1: whenever the process has exited (clean quit, draw error, recv error),
\* raw mode has been disabled and the cursor is shown.
C1_RestoredOnEveryExit ==
    pc = "exited" => (~raw_mode /\ cursor_shown)

\* C2 as stated: handling 'q' while started = false always disables raw mode,
\* then shows the cursor, and ends the process with success.
C2_QuitAlwaysSucceeds ==
    [][(Handles("q") /\ ~start) =>
          /\ pc' = "exited"
          /\ exit_status' = "ok"
          /\ ~raw_mode'
          /\ cursor_shown'
          /\ restore_log' = FullRestore]_vars

\* C2, amended: handling 'q' while started = false ends the loop at once; when
\* disable_raw_mode and show_cursor both return Ok, raw mode is disabled first,
\* the cursor shown second and the process ends with success; when one of them
\* returns Err the process ends with that error, with raw mode still on
\* (disable_raw_mode failed) or off and the cursor not yet shown (show_cursor
\* failed).  The session is left as it was, and once the process has exited
\* no event is consumed and no render happens.
C2_QuitWhenIdle ==
    /\ [][(Handles("q") /\ ~start) =>
             /\ pc' = "exited"
             /\ chan' = Tail(chan)
             /\ UNCHANGED session
             /\ \/ /\ exit_status' = "ok"
                   /\ ~raw_mode'
                   /\ cursor_shown'
                   /\ restore_log' = FullRestore
                \/ /\ exit_status' = "err"
                   /\ restore_log' = <<>>
                   /\ UNCHANGED <<raw_mode, cursor_shown>>
                \/ /\ exit_status' = "err"
                   /\ restore_log' = <<"disable_raw_mode">>
                   /\ ~raw_mode'
                   /\ UNCHANGED cursor_shown]_vars
    /\ [][pc = "exited" => UNCHANGED vars]_vars
    /\ [][(exit_status' = "ok" /\ exit_status # "ok") => (Handles("q") /\ ~start)]_vars

C2_Witness ==
    /\ pc = "exited"
    /\ exit_status = "ok"
    /\ active_menu_item = "Home"
    /\ ~start
    /\ restore_log = FullRestore
    /\ ~raw_mode
    /\ cursor_shown

\* C3 as stated: from any screen and any value of started, handling 'q' leads
\* to process exit.
C3_QuitFromAnywhere ==
    [][Handles("q") => pc' = "exited"]_vars

\* C3, amended: handling 'q' leads to process exit from Home idle and from
\* GameOver (started = false); while started = true (Home counting, Game) the
\* 'q' is typed into the input (appended when it has no modifiers) and the
\* loop goes on to the next render.
C3_QuitOnlyWhenIdle ==
    [][Handles("q") =>
          IF start
             THEN /\ active_menu_item \in {"Home", "Game"}
                  /\ pc' = "draw"
                  /\ exit_status' = "running"
                  /\ raw_mode'
                  /\ curr_input' = IF Head(chan).key.modifiers = "NONE"
                                      THEN curr_input \o <<"q">>
                                      ELSE curr_input
             ELSE /\ active_menu_item \in {"Home", "GameOver"}
                  /\ pc' = "exited"]_vars

C3_Witness ==
    /\ active_menu_item = "Game"
    /\ start
    /\ pc = "draw"
    /\ exit_status = "running"
    /\ curr_input = <<"s", "q">>

\* C4: a step takes the screen from Game to GameOver iff it is a render pass
\* on the Game screen at which the whole seconds since game_start are >= 60,
\* and that step sets started to false; for 0..59 seconds the percent is > 0
\* and the render leaves the screen on Game.
C4_TimeoutIff ==
    /\ \A t \in 0..59 : percent(t) > 0 /\ ~TimedOut(t)
    /\ [][/\ (active_menu_item = "Game" /\ active_menu_item' = "GameOver")
                <=> (RenderPass /\ active_menu_item = "Game"
                                /\ InGameSeconds >= GameSeconds)
          /\ (active_menu_item # "GameOver" /\ active_menu_item' = "GameOver")
                => (active_menu_item = "Game" /\ ~start')
          /\ (RenderPass /\ active_menu_item = "Game" /\ InGameSeconds < GameSeconds)
                => (active_menu_item' = "Game" /\ start' = start
                    /\ 100 - ((100 * InGameSeconds) \div 60) > 0)]_vars

C4_Witness ==
    /\ active_menu_item = "GameOver"
    /\ ~start
    /\ pc = "recv"
    /\ game_start_time = <<60000>>

\* C5: no render pass at which the time since game_start is >= 60 s
\* increments score.
C5_NoScoreAtTimeout ==
    [][(RenderPass /\ active_menu_item = "Game" /\ InGameSeconds >= GameSeconds)
          => score' = score]_vars

\* C6: in a Game render pass where the trimmed input equals the head of
\* words, score grows by exactly one, the head is removed, one word of the
\* supplier is appended at the tail with the rest in order, and input becomes
\* empty; where they differ, score, words and input are unchanged.
C6_MatchStep ==
    [][(RenderPass /\ active_menu_item = "Game") =>
          IF Stripped(curr_input) = game_words[1]
             THEN /\ score' = score + 1
                  /\ Len(game_words') = Len(game_words)
                  /\ \A i \in 1..(Len(game_words) - 1) :
                        game_words'[i] = game_words[i + 1]
                  /\ game_words'[Len(game_words')] \in DictWords
                  /\ curr_input' = <<>>
             ELSE UNCHANGED <<score, game_words, curr_input>>]_vars

C6_Witness ==
    /\ active_menu_item = "Game"
    /\ pc = "recv"
    /\ score = 1
    /\ curr_input = <<>>
    /\ game_words[NumWords] = game_words[NumWords - 1]

\* C7: when the screen changes from Home to Game, input is empty in the
\* resulting state.
C7_InputClearedAtGameStart ==
    [][(active_menu_item = "Home" /\ active_menu_item' = "Game")
          => curr_input' = <<>>]_vars

\* C8: after the restart render that takes GameOver back to Home, input is
\* the empty string.
C8_InputClearedAtRestart ==
    [][(active_menu_item = "GameOver" /\ active_menu_item' = "Home")
          => curr_input' = <<>>]_vars

\* C9: on GameOver with started = false, handling 's' or 'r' sets started,
\* countdown = 3 and score = 0, and the next render yields Home with started,
\* countdown = 3, score = 0 and a queue that is exactly 100 words of the
\* supplier; the screen leaves GameOver in no other way, and started is set
\* there by no other event.
C9_RestartFromGameOver ==
    [][/\ (active_menu_item = "GameOver" /\ ~start
              /\ (Handles("s") \/ Handles("r")))
             => (start' /\ countdown' = 3 /\ score' = 0 /\ pc' = "draw"
                 /\ active_menu_item' = "GameOver")
       /\ (active_menu_item = "GameOver" /\ start /\ pc # "exited")
             => (RenderPass \/ pc' = "exited"
                 \/ UNCHANGED <<pc, active_menu_item, start, countdown,
                                curr_input, game_words, score>>)
       /\ (active_menu_item = "GameOver" /\ start /\ RenderPass)
             => /\ active_menu_item' = "Home"
                /\ start'
                /\ countdown' = 3
                /\ score' = 0
                /\ Len(game_words') = 100
                /\ \A i \in 1..100 : game_words'[i] \in DictWords
       /\ (active_menu_item = "GameOver" /\ active_menu_item' # "GameOver")
             => (start /\ RenderPass)
       /\ (active_menu_item = "GameOver" /\ ~start /\ start')
             => (Handles("s") \/ Handles("r"))]_vars

C9_Witness ==
    /\ active_menu_item = "Home"
    /\ start
    /\ countdown = 3
    /\ score = 0
    /\ pc = "recv"
    /\ game_start_time # <<>>
    /\ Len(game_words) = NumWords

\* C10: the only step that lowers score is the handling of 's' or 'r' while
\* started = false, which sets it to 0; and while the screen is GameOver no
\* other step (tick, render, other key) changes score.
C10_ScoreMonotone ==
    [][/\ score' < score
             => (~start /\ (Handles("s") \/ Handles("r")) /\ score' = 0)
       /\ (active_menu_item = "GameOver" /\ score' # score)
             => (~start /\ (Handles("s") \/ Handles("r")) /\ score' = 0)]_vars

\* The race that ended counted a word (its queue shows the appended word)
\* and the restart key has zeroed the score.
C10_Witness ==
    /\ active_menu_item = "GameOver"
    /\ start
    /\ pc = "draw"
    /\ score = 0
    /\ game_words[NumWords] = game_words[NumWords - 1]

\* C11: in every reachable state, screen = Game implies that game_start is
\* set and that words holds at least one word.
C11_GameHasStartAndWords ==
    active_menu_item = "Game" => (game_start_time # <<>> /\ Len(game_words) >= 1)

\* On the Game screen after a word was counted: the queue was popped and
\* replenished.
C11_Witness ==
    /\ active_menu_item = "Game"
    /\ pc = "draw"
    /\ score = 1
    /\ game_start_time = <<59000>>
    /\ Len(game_words) = NumWords

\* C12: the controller consumes the events in the order the producer sent
\* them, with none lost and none duplicated.  Every step that changes the
\* channel either puts one event behind those in flight (a step of the
\* producer, with the session untouched) or takes the oldest one off (the
\* controller's event step, which handles that very event); every event step
\* of the controller takes exactly one.  In an iteration of the producer the
\* key is sent in the poll phase and the Tick in the tick phase after it.
C12_FifoOrder ==
    [][/\ chan' # chan =>
             \/ /\ Len(chan') = Len(chan) + 1
                /\ SubSeq(chan', 1, Len(chan)) = chan
                /\ UNCHANGED <<pc, session>>
                /\ IF chan'[Len(chan')].type = "Input"
                      THEN ppc = "poll" /\ ppc' = "tick"
                      ELSE ppc = "tick" /\ ppc' = "poll" /\ last_tick >= TickRate
             \/ /\ pc = "recv"
                /\ pc' # "recv"
                /\ chan # <<>>
                /\ chan' = Tail(chan)
                /\ UNCHANGED producer
                /\ IF start
                      THEN /\ pc' = "draw"
                           /\ (Head(chan).type = "Tick") => curr_input' = curr_input
                           /\ (Head(chan).type = "Input")
                                 => curr_input' = curr_input \o <<Head(chan).key.code[2]>>
                      ELSE /\ (Head(chan).type = "Tick") => (pc' = "draw" /\ ~start')
                           /\ (Head(chan).type = "Input")
                                 => IF Head(chan).key.code[2] = "q"
                                       THEN pc' = "exited"
                                       ELSE pc' = "draw" /\ start'
       /\ (pc = "recv" /\ pc' # "recv" /\ chan # <<>>) => chan' = Tail(chan)
       /\ (pc = "recv" /\ chan = <<>>) => (pc' = "recv" \/ ppc = "dead")
       /\ ppc' # ppc => \/ ppc = "poll" /\ ppc' \in {"tick", "dead"}
                        \/ ppc = "tick" /\ ppc' = "poll"]_vars

\* A key and the Tick of the same iteration of the producer are both in
\* flight, the key ahead, and the controller is about to receive.
C12_Witness ==
    /\ pc = "recv"
    /\ start
    /\ active_menu_item = "Game"
    /\ chan = <<Input(KeyEvent(Char("q"), NONE)), Tick>>
    /\ ppc = "poll"
    /\ last_tick = 0

\* C13: the event source blocks when the consumer is slow: the number of
\* events sent and not yet received never exceeds a fixed small bound.  The
\* bound tried is MaxChan, in the specification that leaves the producer room
\* for one event more: nothing in the program holds the producer back there.
C13_SourceBlocks ==
    Len(chan) <= MaxChan

\* The controller, while started, takes this key event off the channel.
HandlesStarted(code, modifiers) ==
    /\ pc = "recv"
    /\ start
    /\ chan # <<>>
    /\ Head(chan) = [type |-> "Input", key |-> [code |-> code, modifiers |-> modifiers]]
    /\ chan' = Tail(chan)

\* C14: while started = true, the Ctrl-A key event makes input empty in that
\* single event step and changes no other field of the session.
C14_CtrlAClears ==
    [][HandlesStarted(<<"Char", "a">>, "CONTROL") =>
          /\ curr_input' = <<>>
          /\ pc' = "draw"
          /\ UNCHANGED <<active_menu_item, start, countdown, game_start_time,
                         game_words, score>>]_vars

\* Ctrl-A is about to be handled during a race, with two characters typed.
C14_Witness ==
    /\ pc = "recv"
    /\ start
    /\ active_menu_item = "Game"
    /\ Len(curr_input) = 2
    /\ chan = <<[type |-> "Input",
                 key |-> [code |-> <<"Char", "a">>, modifiers |-> "CONTROL"]]>>

\* C15: while started = true, a Backspace with no modifiers removes exactly
\* the last character of a non-empty input and leaves an empty input empty; a
\* Char(c) with no modifiers appends exactly c; neither changes another field
\* of the session.
C15_EditKeys ==
    [][/\ HandlesStarted(<<"Backspace">>, "NONE") =>
             /\ IF Len(curr_input) = 0
                   THEN curr_input' = <<>>
                   ELSE /\ Len(curr_input') = Len(curr_input) - 1
                        /\ \A i \in 1..Len(curr_input') : curr_input'[i] = curr_input[i]
             /\ pc' = "draw"
             /\ UNCHANGED <<active_menu_item, start, countdown, game_start_time,
                            game_words, score>>
       /\ \A c \in {"q", "s", " "} :
             HandlesStarted(<<"Char", c>>, "NONE") =>
                /\ curr_input' = curr_input \o <<c>>
                /\ pc' = "draw"
                /\ UNCHANGED <<active_menu_item, start, countdown, game_start_time,
                               game_words, score>>]_vars

\* Backspace is about to be handled during a race, with "sq" typed.
C15_Witness ==
    /\ pc = "recv"
    /\ start
    /\ active_menu_item = "Game"
    /\ curr_input = <<"s", "q">>
    /\ chan = <<[type |-> "Input",
                 key |-> [code |-> <<"Backspace">>, modifiers |-> "NONE"]]>>

\* C16 as stated: countdown is one of 0, 1, 2, 3; a render pass of the Home
\* screen lowers it by exactly one when started and countdown > 0, and leaves
\* it otherwise; the screen goes from Home to Game exactly in the render pass
\* that brings countdown to 0 with started = true, and that is the third
\* render pass after the start key.
C16_ThirdRenderPass ==
    /\ [](countdown \in {0, 1, 2, 3})
    /\ [][/\ (RenderPass /\ active_menu_item = "Home") =>
                countdown' = IF start /\ countdown > 0 THEN countdown - 1
                                                       ELSE countdown
          /\ (active_menu_item = "Home" /\ active_menu_item' = "Game")
                <=> (RenderPass /\ active_menu_item = "Home" /\ start
                                /\ countdown # 0 /\ countdown' = 0)
          /\ (active_menu_item = "Home" /\ active_menu_item' # "Home")
                => active_menu_item' = "Game"
          /\ (active_menu_item = "Home" /\ active_menu_item' = "Game")
                => since_start'.all = 3]_vars

\* C16, amended: the same, where the render pass that brings countdown to 0
\* is the third render pass of the Home screen after the start key: the third
\* render pass of all after a start key handled on Home (the first race), the
\* fourth after a start key handled on GameOver, whose first render pass is
\* the GameOver arm going back to Home.
C16_ThirdHomeRenderPass ==
    /\ [](countdown \in {0, 1, 2, 3})
    /\ [][/\ (RenderPass /\ active_menu_item = "Home") =>
                countdown' = IF start /\ countdown > 0 THEN countdown - 1
                                                       ELSE countdown
          /\ (active_menu_item = "Home" /\ active_menu_item' = "Game")
                <=> (RenderPass /\ active_menu_item = "Home" /\ start
                                /\ countdown # 0 /\ countdown' = 0)
          /\ (active_menu_item = "Home" /\ active_menu_item' # "Home")
                => active_menu_item' = "Game"
          /\ (active_menu_item = "Home" /\ active_menu_item' = "Game")
                => /\ since_start'.home = 3
                   /\ since_start'.all = IF game_start_time = <<>> THEN 3 ELSE 4]_vars

\* After a restart from GameOver: three render passes since the start key,
\* two of them of the Home screen, and the next one brings countdown to 0.
C16_Witness ==
    /\ active_menu_item = "Home"
    /\ start
    /\ countdown = 1
    /\ pc = "draw"
    /\ since_start = [all |-> 3, home |-> 2]

\* C17: render passes and event steps strictly alternate, the render pass
\* first, then exactly one event.  Between an event step and the render pass
\* after it nothing touches the session, and no event is taken off the
\* channel; so when, after a key event handled in Game, the trimmed input
\* equals the head of words, the next render pass counts the word before any
\* further event is applied to input.
C17_Alternation ==
    /\ pc = "draw"
    /\ [][/\ pc' # pc => \/ pc = "draw" /\ pc' \in {"recv", "exited"}
                         \/ pc = "recv" /\ pc' \in {"draw", "exited"}
          /\ pc' = pc => /\ UNCHANGED <<active_menu_item, start, countdown,
                                        curr_input, game_words, score>>
                         /\ Len(chan') >= Len(chan)
          /\ pc = "draw" => Len(chan') >= Len(chan)
          /\ (pc = "recv" /\ pc' = "draw") => (chan # <<>> /\ chan' = Tail(chan))
          /\ (RenderPass /\ active_menu_item = "Game"
                /\ Stripped(curr_input) = game_words[1])
                => (score' = score + 1 /\ curr_input' = <<>>)]_vars

\* A key event was handled in Game, the trimmed input now equals the head of
\* words, and the render pass is next.
C17_Witness ==
    /\ pc = "draw"
    /\ active_menu_item = "Game"
    /\ game_words[1] = <<"q">>
    /\ curr_input = <<"q", " ">>
    /\ score = 0

\* The controller's next step would take the input beyond MaxInput characters
\* or the score beyond MaxScore: the model follows the run no further.
OutOfBounds ==
    \/ /\ pc = "recv"
       /\ start
       /\ chan # <<>>
       /\ Len(InputStarted(curr_input, Head(chan))) > MaxInput
    \/ /\ pc = "draw"
       /\ active_menu_item = "Game"
       /\ Matches(curr_input, game_words)
       /\ score + 1 > MaxScore

RaceEndsOrProcessEnds ==
    (active_menu_item = "Game")
       ~> (active_menu_item = "GameOver" \/ pc = "exited" \/ OutOfBounds)

\* C19: at every render pass on the Game screen the whole seconds elapsed
\* since game_start are at most 60, so that 60 - elapsed does not underflow
\* (it is in 0..60) and the percent given to the gauge is in 0..100.
C19_NoUnderflow ==
    [][(pc = "draw" /\ active_menu_item = "Game"
           /\ (RenderPass \/ exit_status' = "panic"))
          => /\ InGameSeconds <= 60
             /\ 60 - InGameSeconds \in 0..60
             /\ exit_status' # "panic"
             /\ (IF percent(InGameSeconds) <= 0 THEN 0
                    ELSE percent(InGameSeconds)) \in 0..100]_vars

\* C20: a key event the producer sent while the screen was Game is never
\* handled by the started = false branch: the controller takes it off the
\* channel while started = true, and goes on to the next render pass.
C20_RaceKeysStayInRace ==
    [][(pc = "recv" /\ chan # <<>> /\ chan' = Tail(chan)
           /\ Head(chan).type = "Input" /\ Head(sent_in_game))
          => (start /\ start' /\ pc' = "draw")]_vars

====
